---- MODULE Spec2Model ----
(***************************************************************************)
(* Settings persistence and environment probing of the upload-gui Tauri    *)
(* backend (upload-gui/src-tauri/src/lib.rs).                               *)
(*                                                                         *)
(* The commands load_settings, save_settings, validate_r2_connection and   *)
(* detect_display_server are modelled together with the parts of their     *)
(* environment they read and write: the "settings.json" store of           *)
(* tauri_plugin_store (a handle that exists only once the store has been   *)
(* opened, an in-memory map, and the flushed document), serde_json's       *)
(* conversion between AppSettings and JSON values, and the process         *)
(* environment as seen through std::env::var.                              *)
(***************************************************************************)
EXTENDS Integers, Sequences, FiniteSets, TLC

VARIABLES
    storeOpen,   \* "settings.json" is loaded: get_store returns Some
    cache,       \* the store's in-memory value under "app_settings"
    disk,        \* the flushed document's value under "app_settings"
    last,        \* the command that returned last, with what it was given
    prev,        \* the command that returned before a load_settings
    env,         \* the process environment: variable name -> value
    pc,          \* concurrent save_settings calls: position of each
    arg,         \* concurrent save_settings calls: the settings argument
    val,         \* concurrent save_settings calls: the local settings_value
    res,         \* concurrent save_settings calls: the returned Result
    log          \* the store.set and store.save steps in the order they ran

vars == <<storeOpen, cache, disk, last, prev, env, pc, arg, val, res, log>>

storeVars == <<storeOpen, cache, disk>>
callVars == <<pc, arg, val, res, log>>

(***************************************************************************)
(* Bounds                                                                  *)
(***************************************************************************)
\* longest string given to a String field
MaxStrLen == 1
\* number of concurrent save_settings calls
NumSavers == 2
\* width of the model's u32 (TLC's integers end at 2^31 - 1; the only
\* operation on a count is the range check of the deserializer)
U32Bits == 16

(***************************************************************************)
(* AppSettings                                                             *)
(***************************************************************************)
U32Max == 2^U32Bits - 1

StrFields == {"r2_account_id", "r2_access_key_id", "r2_secret_access_key",
              "r2_bucket_name"}
BoolFields == {"gpu_enabled", "delete_original_after_conversion",
               "cleanup_hls_temp_files", "keep_original_mp4", "include_480p"}
NumFields == {"parallel_processing_count", "max_parallel_processing"}
Fields == StrFields \cup BoolFields \cup NumFields

\* the fields in declaration order (the order of a sequence encoding)
FieldOrder ==
    << "r2_account_id", "r2_access_key_id", "r2_secret_access_key",
       "r2_bucket_name", "gpu_enabled", "parallel_processing_count",
       "max_parallel_processing", "delete_original_after_conversion",
       "cleanup_hls_temp_files", "keep_original_mp4", "include_480p" >>

\* Strings are sequences of characters; String::new() is <<>>.
Chars == {"a"}
Strings == UNION {[1..n -> Chars] : n \in 0..MaxStrLen}
U32Values == {0, 2, 4, U32Max}

FieldValues(f) ==
    IF f \in StrFields THEN Strings
    ELSE IF f \in BoolFields THEN BOOLEAN
    ELSE U32Values

is_empty(s) == Len(s) = 0

\* faulty variant: 480p is on by default
AppSettings_default_with_480p ==
    [ r2_account_id |-> <<>>,
      r2_access_key_id |-> <<>>,
      r2_secret_access_key |-> <<>>,
      r2_bucket_name |-> <<>>,
      gpu_enabled |-> TRUE,
      parallel_processing_count |-> 2,
      max_parallel_processing |-> 4,
      delete_original_after_conversion |-> FALSE,
      cleanup_hls_temp_files |-> TRUE,
      keep_original_mp4 |-> TRUE,
      include_480p |-> TRUE ]

AppSettings_default ==
    [ r2_account_id |-> <<>>,
      r2_access_key_id |-> <<>>,
      r2_secret_access_key |-> <<>>,
      r2_bucket_name |-> <<>>,
      gpu_enabled |-> TRUE,
      parallel_processing_count |-> 2,
      max_parallel_processing |-> 4,
      delete_original_after_conversion |-> FALSE,
      cleanup_hls_temp_files |-> TRUE,
      keep_original_mp4 |-> TRUE,
      include_480p |-> FALSE ]

\* a record that differs from the default in every field
FullSettings ==
    [ r2_account_id |-> <<"a">>,
      r2_access_key_id |-> <<"a">>,
      r2_secret_access_key |-> <<"a">>,
      r2_bucket_name |-> <<"a">>,
      gpu_enabled |-> FALSE,
      parallel_processing_count |-> U32Max,
      max_parallel_processing |-> 0,
      delete_original_after_conversion |-> TRUE,
      cleanup_hls_temp_files |-> FALSE,
      keep_original_mp4 |-> FALSE,
      include_480p |-> TRUE ]

Mutations(s) ==
    {[s EXCEPT ![f] = v] : <<f, v>> \in UNION {{f} \X FieldValues(f) : f \in Fields}}

\* the AppSettings values the front end passes to the commands
SettingsInputs == Mutations(AppSettings_default) \cup Mutations(FullSettings)

\* the AppSettings values saved: the default, every change of one field of
\* it, and the record that differs from it everywhere
SaveInputs ==
    Mutations(AppSettings_default)
    \cup {FullSettings, [FullSettings EXCEPT !.include_480p = FALSE]}

(***************************************************************************)
(* Command results                                                         *)
(***************************************************************************)
\* a Result; the value of an Ok is tagged with its type (Value(r) is the value)
Ok(x) == [ok |-> TRUE, val |-> x]
Err(e) == [ok |-> FALSE, err |-> e]
Unit == <<"()">>
Settings(s) == <<"AppSettings", s>>
Bool(b) == <<"bool", b>>
Map(m) == <<"HashMap", m>>
Value(r) == r.val[2]

(***************************************************************************)
(* serde_json::Value and the derived Serialize / Deserialize               *)
(***************************************************************************)
\* a serde_json::Value: its kind and its content
JType(j) == j[1]
JVal(j) == j[2]

JNull == <<"null", FALSE>>
JBool(b) == <<"bool", b>>
JNum(n) == <<"number", n>>
JStr(s) == <<"string", s>>
JArr(a) == <<"array", a>>
JObj(m) == <<"object", m>>

\* store.get(key) = None
NoValue == <<"none", FALSE>>

\* a field of the struct as a JSON value
FieldToValue(f, x) ==
    IF f \in StrFields THEN JStr(x)
    ELSE IF f \in BoolFields THEN JBool(x)
    ELSE JNum(x)

\* faulty variant: parallel_processing_count is written from max_parallel_processing
to_value_swapped(s) ==
    Ok(JObj([f \in Fields |->
               IF f = "parallel_processing_count"
               THEN FieldToValue(f, s.max_parallel_processing)
               ELSE FieldToValue(f, s[f])]))

\* serde_json::to_value(&settings): a map with one entry per field; it has no
\* failing case for a struct of String, bool and u32 fields
to_value(s) == Ok(JObj([f \in Fields |-> FieldToValue(f, s[f])]))

\* a JSON value deserializes as the type of field f
FieldFromValueOk(f, j) ==
    IF f \in StrFields THEN JType(j) = "string"
    ELSE IF f \in BoolFields THEN JType(j) = "bool"
    ELSE JType(j) = "number" /\ JVal(j) >= 0 /\ JVal(j) <= U32Max

\* faulty variant: a field missing from a map is taken from the default record (as
\* #[serde(default)] would)
from_value_lenient(j) ==
    IF JType(j) = "object" THEN
        IF \A f \in Fields \cap DOMAIN JVal(j) : FieldFromValueOk(f, JVal(j)[f])
        THEN Ok(Settings([f \in Fields |->
                            IF f \in DOMAIN JVal(j) THEN JVal(JVal(j)[f])
                            ELSE AppSettings_default[f]]))
        ELSE Err("invalid type")
    ELSE Err("invalid type")

\* serde_json::from_value::<AppSettings>(value): a map needs every field with
\* a value of the field's type (unknown keys are ignored); a sequence needs
\* exactly the eleven values in declaration order; anything else is an error
from_value(j) ==
    IF JType(j) = "object" THEN
        IF \A f \in Fields : f \in DOMAIN JVal(j) /\ FieldFromValueOk(f, JVal(j)[f])
        THEN Ok(Settings([f \in Fields |-> JVal(JVal(j)[f])]))
        ELSE Err("missing field or invalid type")
    ELSE IF JType(j) = "array" THEN
        IF /\ Len(JVal(j)) = Len(FieldOrder)
           /\ \A i \in 1..Len(FieldOrder) : FieldFromValueOk(FieldOrder[i], JVal(j)[i])
        THEN Ok(Settings([f \in Fields |->
                   JVal(JVal(j)[CHOOSE i \in 1..Len(FieldOrder) : FieldOrder[i] = f])]))
        ELSE Err("invalid length or invalid type")
    ELSE Err("invalid type")

(***************************************************************************)
(* The store "settings.json" (tauri_plugin_store)                          *)
(***************************************************************************)
\* StoreExt::get_store: a handle only if the store is already loaded
get_store(open) == IF open THEN Ok(<<"Store">>) ELSE Err("Failed to get store")

\* store.get("app_settings")
store_get(c) == c

\* faulty variant: the entries of a stored map are kept and the new ones added, an
\* entry being written only where it differs from the default
store_set_merge(c, value) ==
    IF JType(c) = "object" /\ JType(value) = "object"
    THEN JObj([f \in DOMAIN JVal(c) \cup DOMAIN JVal(value) |->
                 IF f \notin DOMAIN JVal(value) THEN JVal(c)[f]
                 ELSE IF /\ f \in DOMAIN JVal(c)
                         /\ f \in Fields
                         /\ JVal(value)[f] = FieldToValue(f, AppSettings_default[f])
                      THEN JVal(c)[f]
                      ELSE JVal(value)[f]])
    ELSE value

\* store.set("app_settings", value): the in-memory value is replaced
store_set(c, value) == value

\* faulty variant: a document that exists is not written again
store_save_once(c, d, flushOk) == IF flushOk /\ JType(d) = "none" THEN c ELSE d

\* store.save(): the whole in-memory map becomes the flushed document, or the
\* write fails and the document is left as it was
store_save(c, d, flushOk) == IF flushOk THEN c ELSE d

\* the front end (or the application's start) opens the store: the in-memory
\* map is read from the document
OpenStoreCache(d) == d

\* AppSettings with field f left out of the map
WithoutField(s, f) ==
    JObj([g \in Fields \ {f} |-> FieldToValue(g, s[g])])

\* AppSettings with field f given a value of the wrong JSON type
WithWrongType(s, f) ==
    JObj([g \in Fields |->
            IF g # f THEN FieldToValue(g, s[g])
            ELSE IF g \in StrFields THEN JNum(7) ELSE JStr(<<"a">>)])

\* AppSettings with a count outside u32
WithBadCount(s, f, n) ==
    JObj([g \in Fields |-> IF g # f THEN FieldToValue(g, s[g]) ELSE JNum(n)])

\* AppSettings as a sequence of its first n values in declaration order
AsArray(s, n) ==
    JArr([i \in 1..n |-> FieldToValue(FieldOrder[i], s[FieldOrder[i]])])

\* AppSettings with an entry that is no field of the struct
WithExtraKey(s) ==
    JObj([g \in Fields \cup {"schema_version"} |->
            IF g \in Fields THEN FieldToValue(g, s[g]) ELSE JNum(1)])

\* documents found under "app_settings" that save_settings did not write in
\* this session: other schema revisions, other writers, hand edits
ForeignValues ==
    {NoValue, JNull, JNum(3), JStr(<<"a">>), JObj(<<>>)}
    \cup {WithoutField(FullSettings, f) : f \in Fields}
    \cup {WithWrongType(FullSettings, f) :
            f \in {"r2_bucket_name", "gpu_enabled", "max_parallel_processing"}}
    \cup {WithBadCount(FullSettings, "parallel_processing_count", n) :
            n \in {-1, U32Max + 1}}
    \cup {AsArray(FullSettings, Len(FieldOrder)), AsArray(FullSettings, Len(FieldOrder) - 1),
          WithExtraKey(FullSettings), to_value(FullSettings).val}

(***************************************************************************)
(* The commands                                                            *)
(***************************************************************************)
NoArg == <<>>
Arg(s) == <<s>>
NoSteps == <<>>

\* an invocation that has returned: the command, its argument and Result and,
\* for save_settings, the value that was under "app_settings" when it began,
\* the outcome of store.save() and the steps it ran
Call(op, a, r, old, flush, steps) ==
    [op |-> op, arg |-> a, res |-> r, old |-> old, flush |-> flush, steps |-> steps]

NoCall == Call("none", NoArg, Ok(Unit), NoValue, "-", NoSteps)

\* load_settings: what the command returns in a given state of the store
LoadResult(open, c) ==
    IF ~get_store(open).ok THEN Err(get_store(open).err)
    ELSE LET got == store_get(c) IN
         IF JType(got) = "none" THEN Ok(Settings(AppSettings_default))
         ELSE LET d == from_value(got) IN
              Ok(Settings(IF d.ok THEN Value(d) ELSE AppSettings_default))

\* faulty variant: a stored value that does not deserialize is replaced by the default
LoadCacheRepair(open, c) ==
    IF open /\ JType(c) # "none" /\ ~from_value(c).ok
    THEN to_value(AppSettings_default).val
    ELSE c

\* load_settings: the in-memory value after the call (store.get only reads)
LoadCache(open, c) == c

load_settings ==
    /\ last' = Call("load_settings", NoArg, LoadResult(storeOpen, cache),
                    NoValue, "-", NoSteps)
    /\ prev' = last
    /\ cache' = LoadCache(storeOpen, cache)
    /\ UNCHANGED <<storeOpen, disk, env, callVars>>

\* faulty variant: the Result of store.save() is dropped
SaveResultIgnoresFlush(open, ser, flushOk) ==
    IF ~get_store(open).ok THEN Err(get_store(open).err)
    ELSE IF ~ser.ok THEN Err("Failed to serialize settings")
    ELSE Ok(Unit)

\* save_settings: the Result for the outcome of each step
SaveResult(open, ser, flushOk) ==
    IF ~get_store(open).ok THEN Err(get_store(open).err)
    ELSE IF ~ser.ok THEN Err("Failed to serialize settings")
    ELSE IF ~flushOk THEN Err("Failed to persist settings")
    ELSE Ok(Unit)

\* save_settings: the steps of a call in the order of the code
SaveOrder == <<"get_store", "to_value", "set", "save">>

\* save_settings: the steps a call runs before it returns
SaveSteps(open, ser) ==
    IF ~get_store(open).ok THEN SubSeq(SaveOrder, 1, 1)
    ELSE IF ~ser.ok THEN SubSeq(SaveOrder, 1, 2)
    ELSE SaveOrder

\* save_settings: the in-memory value after the call
SaveCache(open, c, ser) ==
    IF get_store(open).ok /\ ser.ok THEN store_set(c, ser.val) ELSE c

\* save_settings: the flushed document after the call
SaveDisk(open, c, d, ser, flushOk) ==
    IF get_store(open).ok /\ ser.ok
    THEN store_save(SaveCache(open, c, ser), d, flushOk)
    ELSE d

save_settings(s, flushOk) ==
    LET ser == to_value(s) IN
    /\ cache' = SaveCache(storeOpen, cache, ser)
    /\ disk' = SaveDisk(storeOpen, cache, disk, ser, flushOk)
    /\ last' = Call("save_settings", Arg(s), SaveResult(storeOpen, ser, flushOk),
                    cache,
                    IF SaveSteps(storeOpen, ser) # SaveOrder THEN "not reached"
                    ELSE IF flushOk THEN "ok" ELSE "failed",
                    SaveSteps(storeOpen, ser))
    /\ prev' = NoCall
    /\ UNCHANGED <<storeOpen, env, callVars>>

\* faulty variant: the bucket name is not checked
ValidateResultNoBucket(s) ==
    IF \/ is_empty(s.r2_account_id)
       \/ is_empty(s.r2_access_key_id)
       \/ is_empty(s.r2_secret_access_key)
    THEN Err("All R2 credentials are required")
    ELSE Ok(Bool(TRUE))

\* validate_r2_connection
ValidateResult(s) ==
    IF \/ is_empty(s.r2_account_id)
       \/ is_empty(s.r2_access_key_id)
       \/ is_empty(s.r2_secret_access_key)
       \/ is_empty(s.r2_bucket_name)
    THEN Err("All R2 credentials are required")
    ELSE Ok(Bool(TRUE))

validate_r2_connection(s) ==
    /\ last' = Call("validate_r2_connection", Arg(s), ValidateResult(s), NoValue, "-", NoSteps)
    /\ prev' = NoCall
    /\ UNCHANGED <<storeVars, env, callVars>>

(***************************************************************************)
(* The environment of the commands                                         *)
(***************************************************************************)
OpenStore ==
    /\ ~storeOpen
    /\ storeOpen' = TRUE
    /\ cache' = OpenStoreCache(disk)
    /\ last' = Call("open", NoArg, Ok(Unit), NoValue, "-", NoSteps)
    /\ prev' = NoCall
    /\ UNCHANGED <<disk, env, callVars>>

\* the session ends: the in-memory map is gone; the document is flushed on
\* an orderly exit and stays as it was otherwise
CloseStore(flushOk) ==
    /\ storeOpen
    /\ storeOpen' = FALSE
    /\ cache' = NoValue
    /\ disk' = store_save(cache, disk, flushOk)
    /\ last' = Call("close", NoArg, Ok(Unit), NoValue, "-", NoSteps)
    /\ prev' = NoCall
    /\ UNCHANGED <<env, callVars>>

\* between sessions the document is whatever another writer left
ExternalWrite(v) ==
    /\ ~storeOpen
    /\ disk' = v
    /\ last' = Call("external", NoArg, Ok(Unit), NoValue, "-", NoSteps)
    /\ prev' = NoCall
    /\ UNCHANGED <<storeOpen, cache, env, callVars>>

(***************************************************************************)
(* detect_display_server                                                   *)
(***************************************************************************)
EnvVars == {"WAYLAND_DISPLAY", "XDG_SESSION_TYPE", "GDK_BACKEND",
            "WEBKIT_DISABLE_COMPOSITING_MODE"}

Wayland == <<"w", "a", "y", "l", "a", "n", "d">>
X11 == <<"x", "1", "1">>

\* a variable of the process environment: unset, or set to bytes that are or
\* are not valid Unicode (s stands for the bytes)
Unset == [set |-> FALSE, unicode |-> TRUE, s |-> <<>>]
EnvValues ==
    {Unset}
    \cup {[set |-> TRUE, unicode |-> TRUE, s |-> x] : x \in {<<>>, Wayland, X11}}
    \cup {[set |-> TRUE, unicode |-> FALSE, s |-> <<"?">>]}

\* std::env::var(name)
env_var(e, name) ==
    IF ~e[name].set THEN Err("NotPresent")
    ELSE IF ~e[name].unicode THEN Err("NotUnicode")
    ELSE Ok(e[name].s)

\* Result<String, _>::unwrap_or_default
unwrap_or_default(r) == IF r.ok THEN r.val ELSE <<>>

\* faulty variant: both variables are required
is_wayland_both(wayland_display, session_type) ==
    ~is_empty(wayland_display) /\ session_type = Wayland

\* is_wayland as computed from the two strings
is_wayland(wayland_display, session_type) ==
    ~is_empty(wayland_display) \/ session_type = Wayland

DetectResult(e) ==
    LET wayland_display == unwrap_or_default(env_var(e, "WAYLAND_DISPLAY"))
        session_type == unwrap_or_default(env_var(e, "XDG_SESSION_TYPE"))
        gdk_backend == unwrap_or_default(env_var(e, "GDK_BACKEND"))
        webkit_compositing ==
            unwrap_or_default(env_var(e, "WEBKIT_DISABLE_COMPOSITING_MODE"))
    IN Map([ is_wayland |-> is_wayland(wayland_display, session_type),
             session_type |-> session_type,
             wayland_display |-> wayland_display,
             gdk_backend |-> gdk_backend,
             webkit_compositing_disabled |-> webkit_compositing ])

detect_display_server ==
    /\ last' = Call("detect_display_server", NoArg, Ok(DetectResult(env)), NoValue, "-", NoSteps)
    /\ prev' = NoCall
    /\ UNCHANGED <<storeVars, env, callVars>>

\* the environment the process was started in
SetEnv(name, value) ==
    /\ env' = [env EXCEPT ![name] = value]
    /\ last' = Call("setenv", NoArg, Ok(Unit), NoValue, "-", NoSteps)
    /\ prev' = NoCall
    /\ UNCHANGED <<storeVars, callVars>>

(***************************************************************************)
(* Concurrent save_settings calls, step by step                            *)
(***************************************************************************)
Savers == 1..NumSavers

\* records that differ from one another in several fields
ConcInputs ==
    {AppSettings_default, FullSettings,
     [FullSettings EXCEPT !.gpu_enabled = TRUE, !.r2_bucket_name = <<>>,
                          !.max_parallel_processing = 2]}

SaveGetStore(i) ==
    /\ pc[i] = "get_store"
    /\ IF get_store(storeOpen).ok
       THEN /\ pc' = [pc EXCEPT ![i] = "to_value"]
            /\ UNCHANGED res
       ELSE /\ pc' = [pc EXCEPT ![i] = "done"]
            /\ res' = [res EXCEPT ![i] = Err(get_store(storeOpen).err)]
    /\ UNCHANGED <<storeVars, last, prev, env, arg, val, log>>

SaveToValue(i) ==
    /\ pc[i] = "to_value"
    /\ LET ser == to_value(arg[i]) IN
       IF ser.ok
       THEN /\ val' = [val EXCEPT ![i] = ser.val]
            /\ pc' = [pc EXCEPT ![i] = "set"]
            /\ UNCHANGED res
       ELSE /\ pc' = [pc EXCEPT ![i] = "done"]
            /\ res' = [res EXCEPT ![i] = Err("Failed to serialize settings")]
            /\ UNCHANGED val
    /\ UNCHANGED <<storeVars, last, prev, env, arg, log>>

SaveSet(i) ==
    /\ pc[i] = "set"
    /\ cache' = store_set(cache, val[i])
    /\ log' = Append(log, <<"set", i>>)
    /\ pc' = [pc EXCEPT ![i] = "save"]
    /\ UNCHANGED <<storeOpen, disk, last, prev, env, arg, val, res>>

SaveFlush(i, flushOk) ==
    /\ pc[i] = "save"
    /\ disk' = store_save(cache, disk, flushOk)
    /\ res' = [res EXCEPT ![i] =
                 IF flushOk THEN Ok(Unit) ELSE Err("Failed to persist settings")]
    /\ log' = Append(log, <<"save", i>>)
    /\ pc' = [pc EXCEPT ![i] = "done"]
    /\ UNCHANGED <<storeOpen, cache, last, prev, env, arg, val>>

(***************************************************************************)
(* Specifications                                                          *)
(***************************************************************************)
NoEnv == [n \in EnvVars |-> Unset]

InitCommon ==
    /\ storeOpen = FALSE
    /\ cache = NoValue
    /\ disk = NoValue
    /\ last = NoCall
    /\ prev = NoCall
    /\ env = NoEnv
    /\ log = <<>>

\* the commands of the settings store, one call at a time: no call is under
\* way between two steps
Init ==
    /\ InitCommon
    /\ pc = <<>>
    /\ arg = <<>>
    /\ val = <<>>
    /\ res = <<>>

Next ==
    \/ OpenStore
    \/ \E f \in BOOLEAN : CloseStore(f)
    \/ \E v \in ForeignValues : ExternalWrite(v)
    \/ load_settings
    \/ \E s \in SaveInputs, f \in BOOLEAN : save_settings(s, f)

Spec == Init /\ [][Next]_vars

\* validate_r2_connection, in every state of the store
NextValidate ==
    \/ OpenStore
    \/ \E f \in BOOLEAN : CloseStore(f)
    \/ \E v \in ForeignValues : ExternalWrite(v)
    \/ \E s \in SettingsInputs : validate_r2_connection(s)

SpecValidate == Init /\ [][NextValidate]_vars

\* the environment probe
NextEnv ==
    \/ \E n \in EnvVars, v \in EnvValues : SetEnv(n, v)
    \/ detect_display_server

SpecEnv == Init /\ [][NextEnv]_vars

\* save_settings calls running concurrently
InitConc ==
    /\ InitCommon
    /\ pc = [i \in Savers |-> "get_store"]
    /\ arg \in [Savers -> ConcInputs]
    /\ val = [i \in Savers |-> NoValue]
    /\ res = [i \in Savers |-> Ok(Unit)]

NextConc ==
    \/ OpenStore
    \/ \E i \in Savers : SaveGetStore(i)
    \/ \E i \in Savers : SaveToValue(i)
    \/ \E i \in Savers : SaveSet(i)
    \/ \E i \in Savers, f \in BOOLEAN : SaveFlush(i, f)
    \/ load_settings

SpecConc == InitConc /\ [][NextConc]_vars

(***************************************************************************)
(* Properties                                                              *)
(***************************************************************************)
DiffFields(a, b) == {f \in Fields : a[f] # b[f]}

\* a stored value that is no complete AppSettings: not a map (nor a
\* sequence), or a map in which a field is missing or of the wrong type
Incomplete(j) ==
    \/ JType(j) \in {"null", "bool", "number", "string"}
    \/ /\ JType(j) = "object"
       /\ \E f \in Fields :
            \/ f \notin DOMAIN JVal(j)
            \/ JType(JVal(j)[f]) #
                 (IF f \in StrFields THEN "string"
                  ELSE IF f \in BoolFields THEN "bool" ELSE "number")

LoadAfterSave ==
    /\ last.op = "load_settings"
    /\ prev.op = "save_settings"

\* C1: a load_settings that follows a save_settings(s) that returned Ok
\* returns Ok(s), equal to s in all eleven fields.
C1_RoundTrip ==
    (LoadAfterSave /\ prev.res.ok) =>
        /\ last.res.ok
        /\ \A f \in Fields : Value(last.res)[f] = prev.arg[1][f]
        /\ DOMAIN Value(last.res) = Fields

C1_Witness ==
    /\ LoadAfterSave
    /\ prev.res.ok
    /\ prev.arg = Arg(FullSettings)
    /\ last.res = Ok(Settings(FullSettings))

\* the record the claim lists as the default
IsDocumentedDefault(r) ==
    /\ \A f \in StrFields : r[f] = <<>>
    /\ r.gpu_enabled = TRUE
    /\ r.parallel_processing_count = 2
    /\ r.max_parallel_processing = 4
    /\ r.delete_original_after_conversion = FALSE
    /\ r.cleanup_hls_temp_files = TRUE
    /\ r.keep_original_mp4 = TRUE
    /\ r.include_480p = FALSE
    /\ DOMAIN r = Fields

\* C2 as stated: load_settings returns Ok with the default record whenever
\* the store has not been opened or holds nothing under "app_settings".
C2_Original ==
    (last.op = "load_settings" /\ (~storeOpen \/ JType(cache) = "none")) =>
        (last.res.ok /\ IsDocumentedDefault(Value(last.res)))

\* C2 amended: with the store opened and nothing under "app_settings",
\* load_settings returns Ok with the default record; with the store not
\* opened it returns the error "Failed to get store".
C2_DefaultWhenKeyAbsent ==
    (last.op = "load_settings") =>
        /\ (storeOpen /\ JType(cache) = "none") =>
               (last.res.ok /\ IsDocumentedDefault(Value(last.res)))
        /\ ~storeOpen => last.res = Err("Failed to get store")

C2_Witness ==
    /\ last.op = "load_settings"
    /\ storeOpen
    /\ JType(cache) = "none"
    /\ last.res = Ok(Settings(AppSettings_default))

\* C3: whatever is stored, load_settings returns an error only when the store
\* cannot be obtained; a stored value that is no complete AppSettings gives
\* Ok with the complete default record and no field of the stored value.
C3_MalformedGivesDefault ==
    (last.op = "load_settings") =>
        /\ ~last.res.ok <=> ~storeOpen
        /\ (storeOpen /\ Incomplete(cache)) =>
               (last.res.ok /\ IsDocumentedDefault(Value(last.res)))

C3_Witness ==
    /\ last.op = "load_settings"
    /\ storeOpen
    /\ cache = WithoutField(FullSettings, "include_480p")
    /\ last.res = Ok(Settings(AppSettings_default))

\* C4: validate_r2_connection(s) returns an error exactly when one of the
\* four credential fields of s is empty and Ok(true) otherwise, whatever the
\* other seven fields and the store hold.
C4_ValidateIff ==
    (last.op = "validate_r2_connection") =>
        LET s == last.arg[1] IN
        /\ ~last.res.ok <=> (\E f \in StrFields : s[f] = <<>>)
        /\ last.res.ok => last.res = Ok(Bool(TRUE))
        /\ \A s2 \in SettingsInputs :
             (\A f \in StrFields : s2[f] = s[f]) => ValidateResult(s2) = last.res

C4_Witness ==
    /\ last.op = "validate_r2_connection"
    /\ last.res = Ok(Bool(TRUE))
    /\ last.arg[1].gpu_enabled # FullSettings.gpu_enabled
    /\ storeOpen
    /\ JType(cache) # "none"

\* C5 as stated: save_settings returns an error exactly when serialization
\* or the flush fails, the steps running in the order serialize, write, flush.
C5_Original ==
    (last.op = "save_settings") =>
        /\ ~last.res.ok <=>
             (~to_value(last.arg[1]).ok \/ last.flush = "failed")
        /\ last.steps = SubSeq(SaveOrder, 1, Len(last.steps))

\* C5 amended: save_settings returns an error exactly when the store cannot
\* be obtained, serialization fails or the flush fails, and Ok otherwise; the
\* steps run in the order get store, serialize, write, flush.
C5_SaveErrors ==
    (last.op = "save_settings") =>
        /\ ~last.res.ok <=>
             (~storeOpen \/ ~to_value(last.arg[1]).ok \/ last.flush = "failed")
        /\ last.steps = SubSeq(SaveOrder, 1, Len(last.steps))
        /\ last.res.ok => last.steps = SaveOrder

C5_Witness ==
    /\ last.op = "save_settings"
    /\ ~storeOpen
    /\ last.res = Err("Failed to get store")
    /\ last.steps = <<"get_store">>

\* C6: a load_settings after a save_settings(s2) that returned Ok and replaced
\* a stored record s differing from s2 in exactly one field returns the new
\* value in that field and the values of s in the other ten; the stored value
\* is s2 as a whole.
C6_MutationExact ==
    (LoadAfterSave /\ prev.res.ok /\ from_value(prev.old).ok) =>
        LET s == Value(from_value(prev.old))
            s2 == prev.arg[1]
        IN  Cardinality(DiffFields(s, s2)) = 1 =>
                /\ last.res.ok
                /\ \A f \in Fields :
                     Value(last.res)[f] =
                        IF f \in DiffFields(s, s2) THEN s2[f] ELSE s[f]
                /\ cache = to_value(s2).val

C6_Witness ==
    /\ LoadAfterSave
    /\ prev.res.ok
    /\ prev.old = to_value(FullSettings).val
    /\ DiffFields(FullSettings, prev.arg[1]) = {"include_480p"}
    /\ last.res = Ok(Settings(prev.arg[1]))

\* C9: after a save_settings call that returned an error, load_settings
\* returns what it would have returned before that call.
C9_FailedSaveScoped ==
    (LoadAfterSave /\ ~prev.res.ok) =>
        last.res = LoadResult(storeOpen, prev.old)

\* C10: load_settings leaves the store's value under "app_settings", the
\* flushed document and the store handle as they were, and a load_settings
\* that follows a load_settings returns the same result.
C10_LoadReadOnly ==
    [][(last'.op = "load_settings" /\ prev' = last) =>
          /\ cache' = cache
          /\ disk' = disk
          /\ storeOpen' = storeOpen
          /\ (last.op = "load_settings" => last'.res = last.res)]_vars

C10_Witness ==
    /\ last.op = "load_settings"
    /\ prev.op = "load_settings"
    /\ storeOpen
    /\ Incomplete(cache)
    /\ last.res = Ok(Settings(AppSettings_default))
    /\ prev.res = last.res

\* the key under which detect_display_server reports a variable
KeyOf(n) ==
    CASE n = "WAYLAND_DISPLAY" -> "wayland_display"
      [] n = "XDG_SESSION_TYPE" -> "session_type"
      [] n = "GDK_BACKEND" -> "gdk_backend"
      [] n = "WEBKIT_DISABLE_COMPOSITING_MODE" -> "webkit_compositing_disabled"

DetectKeys == {"is_wayland"} \cup {KeyOf(n) : n \in EnvVars}

\* C7 as stated: is_wayland is true exactly when WAYLAND_DISPLAY is set to a
\* non-empty value or XDG_SESSION_TYPE is "wayland"; an unset variable is
\* reported as the empty string and no key is missing.
C7_Original ==
    (last.op = "detect_display_server") =>
        LET m == Value(last.res) IN
        /\ last.res.ok
        /\ DOMAIN m = DetectKeys
        /\ m.is_wayland <=>
             \/ env["WAYLAND_DISPLAY"].set /\ env["WAYLAND_DISPLAY"].s # <<>>
             \/ env["XDG_SESSION_TYPE"].set /\ env["XDG_SESSION_TYPE"].s = Wayland
        /\ \A n \in EnvVars : ~env[n].set => m[KeyOf(n)] = <<>>

\* C7 amended: is_wayland is true exactly when WAYLAND_DISPLAY is set to a
\* non-empty value that is valid Unicode or XDG_SESSION_TYPE is "wayland";
\* a variable that is unset or not valid Unicode is reported as the empty
\* string, any other as its value, and no key is missing.
C7_DetectWayland ==
    (last.op = "detect_display_server") =>
        LET m == Value(last.res)
            valid(n) == env[n].set /\ env[n].unicode
        IN
        /\ last.res.ok
        /\ DOMAIN m = DetectKeys
        /\ m.is_wayland <=>
             \/ valid("WAYLAND_DISPLAY") /\ env["WAYLAND_DISPLAY"].s # <<>>
             \/ valid("XDG_SESSION_TYPE") /\ env["XDG_SESSION_TYPE"].s = Wayland
        /\ \A n \in EnvVars :
             m[KeyOf(n)] = IF valid(n) THEN env[n].s ELSE <<>>

C7_Witness ==
    /\ last.op = "detect_display_server"
    /\ env["WAYLAND_DISPLAY"] = [set |-> TRUE, unicode |-> TRUE, s |-> Wayland]
    /\ ~env["XDG_SESSION_TYPE"].set
    /\ Value(last.res).is_wayland
    /\ Value(last.res).session_type = <<>>

AllSavedOk == \A i \in Savers : pc[i] = "done" /\ res[i].ok

Sets == SelectSeq(log, LAMBDA e : e[1] = "set")
LastWriter == Sets[Len(Sets)][2]
LastFlusher == log[Len(log)][2]

\* C8: once concurrent save_settings calls have all returned Ok, load_settings
\* returns, and the flushed document holds, the whole record of the call whose
\* store.set ran last.
C8_LastWriterWins ==
    AllSavedOk =>
        /\ LoadResult(storeOpen, cache) = Ok(Settings(arg[LastWriter]))
        /\ disk = to_value(arg[LastWriter]).val
        /\ from_value(disk) = Ok(Settings(arg[LastWriter]))

C8_Witness ==
    /\ AllSavedOk
    /\ LastFlusher # LastWriter
    /\ arg[LastFlusher] # arg[LastWriter]
    /\ last.op = "load_settings"
    /\ last.res = Ok(Settings(arg[LastWriter]))

====
